---- MODULE Spec2Model ----
(***************************************************************************)
(* Verification model of the FMS application (devopsadityamss/fms-app).    *)
(*                                                                         *)
(* Seven state machines share this module, each with its own               *)
(* specification:                                                          *)
(*   Spec       role-scoped session: login, role selection, role switch,   *)
(*              route guard, token storage          (UserContext, Login,   *)
(*              RoleSelector, RoleRegistration, ProtectedRoute, api.js)    *)
(*   SpecUnit   production-unit progress view       (ProductionUnitView,   *)
(*              ProductionUnitDetail, ProductionUnitCard, OperationLogForm)*)
(*   SpecApi    read operations of the farmer API wrapper (api/farmer.js)  *)
(*   SpecBoard  drag-and-drop task board            (pages/TaskBoard.jsx)  *)
(*   SpecDb     tables profiles, projects, tasks and the demo data scripts *)
(*   SpecEditor stage template editor         (StageTemplateEditor.jsx)    *)
(*   SpecGuard  route guard with role redirects, on the routes of App      *)
(* A specification leaves the variables of the other machines unchanged.   *)
(***************************************************************************)
EXTENDS FiniteSets, Integers, Naturals, Sequences, TLC

VARIABLES
  \* ---- backend (role store, token issuance) ----
  assigned,        \* roles the backend has assigned to the user
  nextTok,         \* serial number of the next token the backend issues
  \* ---- Supabase ----
  sbSession,       \* a Supabase session exists (persisted by the SDK)
  \* ---- services/api.js ----
  backendToken,    \* module variable backendToken
  lsToken,         \* localStorage["fms_backend_token"]
  lastAuth,        \* header of the latest request since the token changed
  \* ---- UserContext ----
  supabaseUser,    \* supabaseUser state is non-null
  user,            \* user state carries a user_id
  roles,           \* roles state
  activeRole,      \* activeRole state
  lsActiveRole,    \* localStorage["activeRole"]
  rolesFetch,      \* loadUserRoles has a GET /rbac/user/:id/roles in flight
  \* ---- Login / RoleRegistration component state ----
  loginPc,         \* position of handleSupabaseLogin
  profileId,       \* Login.profileId is non-null
  availableRoles,  \* Login.availableRoles
  showRoleSelector,\* Login.showRoleSelector
  error,           \* Login.error / RoleRegistration.error
  selected,        \* RoleRegistration.selected
  regPc,           \* position of RoleRegistration.handleSubmit
  showSelector,    \* RoleRegistration.showSelector
  \* ---- router ----
  page,            \* route whose element is rendered
  \* ---- requests in flight and bookkeeping of the session machine ----
  net,             \* create-session / switch-role requests in flight
  delivered,       \* the request whose response delivered backendToken
  picked,          \* role the user picked in a role selector, and where
  lastSwitch,      \* outcome of the latest switchRole that stored a token
  handled,         \* what Login's handler found and did, if the latest step
                   \* was the rest of that handler after a response
  \* ---- production unit pages ----
  srvUnit,         \* the unit as the backend stores it
  unitPage,        \* the unit page that is mounted
  unit,            \* unit state (or unit prop) of the mounted page
  stageId,         \* OperationLogForm.stageId
  unitPc,          \* request of ProductionUnitView in flight
  \* ---- farmer API wrapper ----
  apiCall,         \* the call being made: operation and argument
  apiPc,           \* position of the call
  apiSent,         \* number of HTTP requests sent so far
  apiResult,       \* value the call returned
  \* ---- task board ----
  srvTasks,        \* status of every task on the server
  tasks,           \* tasks state of TaskBoard
  boardNet,        \* PUT /tasks/:id and GET /tasks requests in flight
  drops,           \* number of drops handled so far
  lastDrop,        \* the latest drop: task, target, status shown before
  rollback,        \* tasks whose latest PUT of a column's status failed
  \* ---- database ----
  profiles,        \* rows of table profiles
  projects,        \* rows of table projects
  taskRows,        \* rows of table tasks
  clock,           \* number of INSERT statements run so far (now())
  dbOp,            \* the statement or script that ran last, and its effect
  \* ---- stage template editor ----
  selectedOptions, \* loc.state.selectedOptions
  edStages,        \* stages state of StageTemplateEditor
  saving,          \* saving state
  payload,         \* body of the POST the latest step sent, if it sent one
  edMounted,       \* the editor is on screen
  \* ---- route guard with role redirects ----
  guardTokenLen,   \* length of localStorage "fms_backend_token" (0: none)
  guardUser,       \* user of the context is set
  guardRoles,      \* roles of the context
  guardActiveRole, \* activeRole of the context
  location,        \* the router's location
  rendered,        \* what the route at location has rendered
  redirects        \* <Navigate> elements followed since the last link

sessionVars == <<assigned, nextTok, sbSession, backendToken, lsToken, lastAuth,
                 supabaseUser, user, roles, activeRole, lsActiveRole,
                 rolesFetch, loginPc, profileId, availableRoles,
                 showRoleSelector, error, selected, regPc, showSelector, page,
                 net, delivered, picked, lastSwitch, handled>>
unitVars == <<srvUnit, unitPage, unit, stageId, unitPc>>
apiVars == <<apiCall, apiPc, apiSent, apiResult>>
boardVars == <<srvTasks, tasks, boardNet, drops, lastDrop, rollback>>
dbVars == <<profiles, projects, taskRows, clock, dbOp>>
editorVars == <<selectedOptions, edStages, saving, payload, edMounted>>
guardVars == <<guardTokenLen, guardUser, guardRoles, guardActiveRole, location,
               rendered, redirects>>
vars == <<sessionVars, unitVars, apiVars, boardVars, dbVars, editorVars,
          guardVars>>

(***************************************************************************)
(* Bounds                                                                  *)
(***************************************************************************)
MaxTokens == 2
MaxInflight == 1
MaxStages == 2
MaxStageTasks == 2
MaxUnitTasks == 3
MaxApiRequests == 3
MaxBoardTasks == 2
MaxDrops == 2
MaxInserts == 3
MaxSeedTasks == 2
MaxEditorStages == 2
MaxEditorTasks == 2
MaxRedirects == 2

(***************************************************************************)
(* Roles, tokens, routes                                                   *)
(***************************************************************************)
\* The application knows admin, farmer, worker and trader; the session machine
\* follows a user through two of them.
Roles == {"admin", "farmer"}
NoRole == "none"

\* The backend issues JWT access tokens; their length is well above the
\* guard's threshold.
IssuedTokenLen == 24
MinTokenLen == 10

NoToken == [role |-> NoRole, id |-> 0, len |-> 0]
Tokens == [role : Roles, id : 1..(MaxTokens + 1), len : {IssuedTokenLen}]

PublicPaths == {"/login", "/register-roles"}
AdminPaths == {"/admin/dashboard"}
FarmerPaths == {"/farmer/dashboard", "/farmer/tasks"}
WorkerPaths == {"/worker/dashboard"}
TraderPaths == {"/trader/dashboard"}
RolePaths == AdminPaths \cup FarmerPaths \cup WorkerPaths \cup TraderPaths
ProtectedPaths == {"/"} \cup RolePaths
Paths == PublicPaths \cup ProtectedPaths
\* The locations the user is followed to: the public pages, the dashboard
\* router and the dashboards of the two roles followed.
Visited == PublicPaths \cup {"/", "/admin/dashboard", "/farmer/dashboard"}

\* The role whose area a route belongs to (the path's first segment).
RequiredRole(p) ==
  IF p \in AdminPaths THEN "admin"
  ELSE IF p \in FarmerPaths THEN "farmer"
  ELSE IF p \in WorkerPaths THEN "worker"
  ELSE IF p \in TraderPaths THEN "trader"
  ELSE NoRole

\* authHeader(explicitToken): explicitToken || backendToken; NoToken stands
\* for the empty header "".
authHeader(explicitToken, bt) ==
  IF explicitToken # NoToken THEN explicitToken ELSE bt

\* A request through services/api.js, called without an explicit token.
ServicesApiHeader == [sent |-> TRUE, tok |-> authHeader(NoToken, backendToken)]
\* A request through api/client.js: the axios instance sets Content-Type only.
ClientApiHeader == [sent |-> TRUE, tok |-> NoToken]
NoRequest == [sent |-> FALSE, tok |-> NoToken]

\* ProtectedRoute: storedToken || localStorage token, longer than 10.
IsAuthed(bt, ls) ==
  LET t == IF bt # NoToken THEN bt ELSE ls
  IN  t # NoToken /\ t.len > MinTokenLen

\* A guard that lets the dashboard router through without the token check.
ProtectedRouteRootOpen(p, bt, ls, ar) ==
  IF p = "/" \/ IsAuthed(bt, ls) THEN p ELSE "/login"
\* ProtectedRoute renders its children exactly when the token check passes.
ProtectedRoute(p, bt, ls, ar) ==
  IF IsAuthed(bt, ls) THEN p ELSE "/login"

\* DashboardRouter: redirect by the lower-cased active role.
DashboardRouter(ar) ==
  IF ar = "admin" THEN "/admin/dashboard"
  ELSE IF ar = "farmer" THEN "/farmer/dashboard"
  ELSE IF ar = "worker" THEN "/worker/dashboard"
  ELSE IF ar = "trader" THEN "/trader/dashboard"
  ELSE "/"

\* The route whose element ends up rendered when the location is p.
Settle(p, bt, ls, ar) ==
  IF p \in ProtectedPaths
  THEN LET q == ProtectedRoute(p, bt, ls, ar)
       IN  IF q = "/" THEN DashboardRouter(ar) ELSE q
  ELSE p

NoPick == [role |-> NoRole, flow |-> "none"]
NoSwitch == [role |-> NoRole, token |-> NoToken]
IdleReg == [st |-> "idle", ids |-> {}]
NoDelivery == [role |-> NoRole, offered |-> FALSE]
\* handled: op names the response handled ("roles" or "session"), found what
\* it held, nav the location given to navigate(), if navigate() was called.
NoNav == "none"
NoStep == [op |-> "none", found |-> "none", nav |-> NoNav]
Handled(o, f, n) == [op |-> o, found |-> f, nav |-> n]

\* A role menu that offers every role the application knows.
RoleMenuAll(list) == Roles
\* The roles a role menu offers: RoleSelector and FarmerHeader render one
\* entry per element of the list they are given.
RoleMenu(list) == list

\* A create-session or switch-role request naming role r, chosen while the
\* backend's latest report of the user's roles was list.
Request(o, r, list) == [op |-> o, role |-> r, offered |-> r \in list]

(***************************************************************************)
(* Session machine                                                         *)
(***************************************************************************)
loginVars == <<loginPc, profileId, availableRoles, showRoleSelector>>
regVars == <<selected, regPc, showSelector>>
storeVars == <<backendToken, lsToken, activeRole, lsActiveRole, delivered>>
otherMachines == <<unitVars, apiVars, boardVars, dbVars, editorVars,
                   guardVars>>

\* A page that is unmounted loses its own state; the next mount starts from
\* the initial values of its useState calls.
LoginUnmounted ==
  /\ profileId' = FALSE
  /\ availableRoles' = {}
  /\ showRoleSelector' = FALSE
RegistrationUnmounted ==
  /\ selected' = {}
  /\ showSelector' = FALSE

\* Requests whose continuation is pending.
Inflight ==
  Cardinality(net) + (IF loginPc = "roles" THEN 1 ELSE 0)
                   + (IF regPc.st = "assign" THEN 1 ELSE 0)
                   + (IF rolesFetch THEN 1 ELSE 0)

\* The Authorization header recorded for a request sent now; requests are
\* followed from the first successful switchRole on.
Sent(header) == IF lastSwitch # NoSwitch THEN header ELSE NoRequest

InitSession ==
  /\ assigned \in SUBSET Roles
  /\ nextTok = 1
  /\ sbSession = FALSE
  /\ backendToken = NoToken
  /\ lsToken = NoToken
  /\ lastAuth = NoRequest
  /\ supabaseUser = FALSE
  /\ user = FALSE
  /\ roles = {}
  /\ activeRole = NoRole
  /\ lsActiveRole = NoRole
  /\ rolesFetch = FALSE
  /\ loginPc = "idle"
  /\ profileId = FALSE
  /\ availableRoles = {}
  /\ showRoleSelector = FALSE
  /\ error = "none"
  /\ selected = {}
  /\ regPc = IdleReg
  /\ showSelector = FALSE
  /\ page = "/login"
  /\ net = {}
  /\ delivered = NoDelivery
  /\ picked = NoPick
  /\ lastSwitch = NoSwitch
  /\ handled = NoStep

\* A full page load of location p (window.location.href = p, or a reload):
\* every React state starts over, api.js re-reads the token from
\* localStorage, the mount effect of UserProvider restores activeRole,
\* pending continuations are gone.
LoadPage(p) ==
  /\ backendToken' = lsToken
  /\ activeRole' = lsActiveRole
  /\ supabaseUser' = FALSE
  /\ user' = FALSE
  /\ roles' = {}
  /\ rolesFetch' = FALSE
  /\ loginPc' = "idle"
  /\ profileId' = FALSE
  /\ availableRoles' = {}
  /\ showRoleSelector' = FALSE
  /\ error' = "none"
  /\ selected' = {}
  /\ regPc' = IdleReg
  /\ showSelector' = FALSE
  /\ net' = {}
  /\ page' = Settle(p, lsToken, lsToken, lsActiveRole)
  /\ UNCHANGED <<assigned, nextTok, sbSession, lsToken, lsActiveRole,
                 lastAuth, delivered, lastSwitch>>

\* The user reloads the page.
Reload ==
  /\ LoadPage(page)
  /\ picked' = NoPick
  /\ handled' = NoStep
  /\ UNCHANGED otherMachines

\* supabase.auth.onAuthStateChange listener, and the effect on supabaseUser
\* that starts loadUserRoles.
AuthStateChange ==
  /\ sbSession # supabaseUser
  /\ sbSession => Inflight < MaxInflight
  /\ supabaseUser' = sbSession
  /\ IF sbSession
     THEN rolesFetch' = TRUE /\ lastAuth' = Sent(ServicesApiHeader)
     ELSE UNCHANGED <<rolesFetch, lastAuth>>
  /\ UNCHANGED <<assigned, nextTok, sbSession, storeVars, user, roles,
                 loginVars, error, regVars, page, net, picked, lastSwitch>>
  /\ handled' = NoStep
  /\ UNCHANGED otherMachines

\* loadUserRoles: fetched = res.data?.roles || []; setRoles(fetched).
LoadUserRolesReturn ==
  /\ rolesFetch
  /\ rolesFetch' = FALSE
  /\ \E outcome \in {"throw", "error", "ok"} :
       roles' = IF outcome = "throw" THEN roles
                ELSE IF outcome = "error" THEN {}
                ELSE assigned
  /\ UNCHANGED <<assigned, nextTok, sbSession, storeVars, lastAuth,
                 supabaseUser, user, loginVars, error, regVars, page, net,
                 picked, lastSwitch>>
  /\ handled' = NoStep
  /\ UNCHANGED otherMachines

\* Login.handleSupabaseLogin up to the roles request.
LoginSubmit ==
  /\ page = "/login"
  /\ loginPc = "idle"
  /\ Inflight < MaxInflight
  /\ \E outcome \in {"rejected", "ok"} :
       IF outcome = "rejected"
       THEN /\ error' = "other"
            /\ UNCHANGED <<sbSession, user, profileId, loginPc, lastAuth>>
       ELSE /\ error' = "none"
            /\ sbSession' = TRUE
            /\ user' = FALSE
            /\ profileId' = TRUE
            /\ loginPc' = "roles"
            /\ lastAuth' = Sent(ServicesApiHeader)
  /\ picked' = NoPick
  /\ UNCHANGED <<assigned, nextTok, storeVars, supabaseUser, roles,
                 rolesFetch, availableRoles, showRoleSelector, regVars, page,
                 net, lastSwitch>>
  /\ handled' = NoStep
  /\ UNCHANGED otherMachines

\* A test that also takes the first of several roles without asking.
SingleRoleOrFirst(rolesList) == Cardinality(rolesList) >= 1
\* rolesList.length === 1
SingleRole(rolesList) == Cardinality(rolesList) = 1

\* Login.handleSupabaseLogin from the roles response on: zero roles go to
\* role registration, one role creates the session, more show the selector.
\* The setters of Login's own state act only while Login is mounted.
LoginRolesReturn ==
  /\ loginPc = "roles"
  /\ loginPc' = "idle"
  /\ \E outcome \in {"throw", "error", "ok"} :
       LET rolesList == IF outcome = "ok" THEN assigned ELSE {}
           mounted == page = "/login"
       IN  IF outcome = "throw"
           THEN /\ error' = IF mounted THEN "other" ELSE error
                /\ handled' = Handled("roles", "failed", NoNav)
                /\ UNCHANGED <<availableRoles, roles, page, net, profileId,
                               showRoleSelector, picked, lastAuth>>
           ELSE /\ roles' = rolesList
                /\ IF Cardinality(rolesList) = 0
                   THEN /\ page' = "/register-roles"
                        /\ handled' = Handled("roles", "zero",
                                              "/register-roles")
                        /\ LoginUnmounted
                        /\ error' = IF page' # page THEN "none" ELSE error
                        /\ UNCHANGED <<net, picked, lastAuth>>
                   ELSE IF SingleRole(rolesList)
                   THEN LET chosen == CHOOSE r \in rolesList : TRUE
                        IN  /\ net' = net \cup {Request("create", chosen,
                                                         rolesList)}
                            /\ picked' = [role |-> chosen, flow |-> "single"]
                            /\ lastAuth' = Sent(ServicesApiHeader)
                            /\ handled' = Handled("roles", "one", NoNav)
                            /\ availableRoles' = IF mounted THEN rolesList
                                                 ELSE availableRoles
                            /\ UNCHANGED <<page, showRoleSelector, profileId,
                                           error>>
                   ELSE /\ showRoleSelector' = (mounted \/ showRoleSelector)
                        /\ handled' = Handled("roles", "many", NoNav)
                        /\ availableRoles' = IF mounted THEN rolesList
                                             ELSE availableRoles
                        /\ UNCHANGED <<page, net, picked, lastAuth, profileId,
                                       error>>
  /\ UNCHANGED <<assigned, nextTok, sbSession, storeVars, supabaseUser, user,
                 rolesFetch, regVars, lastSwitch>>
  /\ UNCHANGED otherMachines

\* The backend's answer to POST /auth/create-session or /rbac/switch-role
\* naming role r: it issues a token only for a role assigned to the user.
CanIssue(r) == r \in assigned /\ nextTok <= MaxTokens
IssuedToken(r) == [role |-> r, id |-> nextTok, len |-> IssuedTokenLen]

\* A setBackendToken without the removeItem branch.
setBackendTokenKeepsStored(token) ==
  /\ backendToken' = token
  /\ lsToken' = IF token # NoToken THEN token ELSE lsToken
\* setBackendToken(token) of api.js: the module variable, and localStorage
\* (setItem for a token, removeItem for null).
setBackendToken(token) ==
  /\ backendToken' = token
  /\ lsToken' = token

\* createBackendSession with a token in the response: setBackendToken,
\* setActiveRoleState, localStorage.setItem("activeRole", chosenRole).
createSessionStore(token, chosenRole) ==
  /\ setBackendToken(token)
  /\ activeRole' = chosenRole
  /\ lsActiveRole' = chosenRole

\* A switchRole that does not write activeRole to localStorage.
switchRoleStoreUnsaved(token, newRole) ==
  /\ setBackendToken(token)
  /\ activeRole' = newRole
  /\ lsActiveRole' = lsActiveRole
\* switchRole with a token in the response: setBackendToken,
\* setActiveRoleState, localStorage.setItem("activeRole", newRole).
switchRoleStore(token, newRole) ==
  /\ setBackendToken(token)
  /\ activeRole' = newRole
  /\ lsActiveRole' = newRole

\* What is remembered of the request m whose response delivered a token.
Delivery(m) == [role |-> m.role, offered |-> m.offered]

\* UserContext.createBackendSession from the response on, and the rest of
\* Login's handler (handleSupabaseLogin with one role, handleRoleSelect).
CreateSessionReturn ==
  \E m \in net :
    /\ m.op = "create"
    /\ net' = net \ {m}
    /\ \E outcome \in {"throw", "error", "ok"} :
         /\ outcome = "ok" => CanIssue(m.role)
         /\ IF outcome = "ok"
            THEN /\ createSessionStore(IssuedToken(m.role), m.role)
                 /\ roles' = assigned
                 /\ user' = TRUE
                 /\ nextTok' = nextTok + 1
                 /\ delivered' = Delivery(m)
                 /\ lastSwitch' = NoSwitch
                 /\ lastAuth' = NoRequest
                 /\ picked' = picked
            ELSE /\ UNCHANGED <<storeVars, roles, user, nextTok, lastSwitch,
                                lastAuth>>
                 /\ picked' = IF picked.role = m.role THEN NoPick ELSE picked
         /\ IF outcome = "throw"
            THEN /\ error' = IF page = "/login" THEN "session" ELSE error
                 /\ page' = page
                 /\ handled' = Handled("session", "threw", NoNav)
                 /\ UNCHANGED <<profileId, availableRoles, showRoleSelector,
                                selected, showSelector>>
            ELSE /\ error' = "none"
                 /\ page' = Settle("/", backendToken', lsToken', activeRole')
                 /\ handled' = Handled("session",
                                       IF outcome = "ok" THEN "token"
                                       ELSE "no token", "/")
                 /\ LoginUnmounted
                 /\ RegistrationUnmounted
    /\ UNCHANGED <<assigned, sbSession, supabaseUser, rolesFetch, loginPc,
                   regPc>>
    /\ UNCHANGED otherMachines

\* RoleSelector.handleSelect in Login's selector, with Login.handleRoleSelect
\* as onSelect.
SelectRoleAtLogin ==
  /\ page = "/login"
  /\ showRoleSelector
  /\ \E role \in RoleMenu(availableRoles) :
       IF ~supabaseUser
       THEN /\ LoadPage("/login")
            /\ picked' = NoPick
       ELSE IF Cardinality(availableRoles) = 0
       THEN /\ Inflight < MaxInflight
            /\ net' = net \cup {Request("create", role, availableRoles)}
            /\ picked' = [role |-> role, flow |-> "login"]
            /\ lastAuth' = Sent(ServicesApiHeader)
            /\ UNCHANGED <<assigned, nextTok, sbSession, storeVars,
                           supabaseUser, user, roles, rolesFetch, loginVars,
                           error, regVars, page, lastSwitch>>
       ELSE IF ~profileId
       THEN /\ error' = "other"
            /\ picked' = NoPick
            /\ UNCHANGED <<assigned, nextTok, sbSession, storeVars, lastAuth,
                           supabaseUser, user, roles, rolesFetch, loginVars,
                           regVars, page, net, lastSwitch>>
       ELSE /\ Inflight < MaxInflight
            /\ showRoleSelector' = FALSE
            /\ net' = net \cup {Request("create", role, availableRoles)}
            /\ picked' = [role |-> role, flow |-> "login"]
            /\ lastAuth' = Sent(ServicesApiHeader)
            /\ UNCHANGED <<assigned, nextTok, sbSession, storeVars,
                           supabaseUser, user, roles, rolesFetch, loginPc,
                           profileId, availableRoles, error, regVars, page,
                           lastSwitch>>
  /\ handled' = NoStep
  /\ UNCHANGED otherMachines

\* UserContext.switchRole up to the request (FarmerHeader's role menu).
SwitchRole ==
  /\ page \in FarmerPaths
  /\ supabaseUser
  /\ Inflight < MaxInflight
  /\ \E newRole \in RoleMenu(roles) :
       net' = net \cup {Request("switch", newRole, roles)}
  /\ lastAuth' = Sent(ServicesApiHeader)
  /\ UNCHANGED <<assigned, nextTok, sbSession, storeVars, supabaseUser, user,
                 roles, rolesFetch, loginVars, error, regVars, page, picked,
                 lastSwitch>>
  /\ handled' = NoStep
  /\ UNCHANGED otherMachines

\* UserContext.switchRole from the response on.
SwitchRoleReturn ==
  \E m \in net :
    /\ m.op = "switch"
    /\ net' = net \ {m}
    /\ \E outcome \in {"throw", "error", "ok"} :
         /\ outcome = "ok" => CanIssue(m.role)
         /\ IF outcome = "ok"
            THEN /\ switchRoleStore(IssuedToken(m.role), m.role)
                 /\ nextTok' = nextTok + 1
                 /\ delivered' = Delivery(m)
                 /\ lastSwitch' = [role |-> m.role,
                                   token |-> IssuedToken(m.role)]
                 /\ lastAuth' = NoRequest
                 /\ picked' = NoPick
            ELSE UNCHANGED <<storeVars, nextTok, lastSwitch, lastAuth, picked>>
    /\ page' = Settle(page, backendToken', lsToken', activeRole')
    /\ UNCHANGED <<assigned, sbSession, supabaseUser, user, roles, rolesFetch,
                   loginVars, error, regVars>>
    /\ handled' = NoStep
    /\ UNCHANGED otherMachines

\* RoleRegistration.toggleRole.
ToggleRole ==
  /\ page = "/register-roles"
  /\ ~showSelector
  /\ \E id \in Roles :
       selected' = IF id \in selected THEN selected \ {id}
                   ELSE selected \cup {id}
  /\ UNCHANGED <<assigned, nextTok, sbSession, storeVars, lastAuth,
                 supabaseUser, user, roles, rolesFetch, loginVars, error,
                 regPc, showSelector, page, net, picked, lastSwitch>>
  /\ handled' = NoStep
  /\ UNCHANGED otherMachines

\* RoleRegistration.handleSubmit up to POST /rbac/assign-roles-bulk.
RegSubmit ==
  /\ page = "/register-roles"
  /\ ~showSelector
  /\ regPc.st = "idle"
  /\ Inflight < MaxInflight
  /\ IF ~(user \/ supabaseUser)
     THEN error' = "other" /\ UNCHANGED <<regPc, lastAuth>>
     ELSE IF selected = {}
     THEN error' = "other" /\ UNCHANGED <<regPc, lastAuth>>
     ELSE /\ regPc' = [st |-> "assign", ids |-> selected]
          /\ lastAuth' = Sent(ServicesApiHeader)
          /\ error' = error
  /\ UNCHANGED <<assigned, nextTok, sbSession, storeVars, supabaseUser, user,
                 roles, rolesFetch, loginVars, selected, showSelector, page,
                 net, picked, lastSwitch>>
  /\ handled' = NoStep
  /\ UNCHANGED otherMachines

\* RoleRegistration.handleSubmit from the response on.  fetch resolves for
\* every HTTP status, so the selector is shown unless the request threw.
RegAssignReturn ==
  /\ regPc.st = "assign"
  /\ regPc' = IdleReg
  /\ \E outcome \in {"throw", "error", "ok"} :
       /\ assigned' = IF outcome = "ok" THEN assigned \cup regPc.ids
                      ELSE assigned
       /\ IF outcome = "throw"
          THEN error' = "other" /\ UNCHANGED showSelector
          ELSE showSelector' = TRUE /\ UNCHANGED error
  /\ UNCHANGED <<nextTok, sbSession, storeVars, lastAuth, supabaseUser, user,
                 roles, rolesFetch, loginVars, selected, page, net, picked,
                 lastSwitch>>
  /\ handled' = NoStep
  /\ UNCHANGED otherMachines

\* RoleSelector.handleSelect in the selector RoleRegistration shows after the
\* roles were assigned: roles = selectedNames, onSelect = () => {}.
SelectRoleAtRegistration ==
  /\ page = "/register-roles"
  /\ showSelector
  /\ \E role \in RoleMenu(selected) :
       IF ~supabaseUser
       THEN /\ LoadPage("/login")
            /\ picked' = NoPick
       ELSE IF Cardinality(selected) = 0
       THEN /\ Inflight < MaxInflight
            /\ net' = net \cup {Request("create", role, {})}
            /\ picked' = [role |-> role, flow |-> "registration"]
            /\ lastAuth' = Sent(ServicesApiHeader)
            /\ UNCHANGED <<assigned, nextTok, sbSession, storeVars,
                           supabaseUser, user, roles, rolesFetch, loginVars,
                           error, regVars, page, lastSwitch>>
       ELSE /\ picked' = [role |-> role, flow |-> "registration"]
            /\ UNCHANGED <<assigned, nextTok, sbSession, storeVars, lastAuth,
                           supabaseUser, user, roles, rolesFetch, loginVars,
                           error, regVars, page, net, lastSwitch>>
  /\ handled' = NoStep
  /\ UNCHANGED otherMachines

\* UserContext.logout (role headers); the sign-out may throw.
Logout ==
  /\ page \in RolePaths
  /\ \E outcome \in {"throw", "ok"} :
       sbSession' = IF outcome = "ok" THEN FALSE ELSE sbSession
  /\ supabaseUser' = FALSE
  /\ user' = FALSE
  /\ roles' = {}
  /\ activeRole' = NoRole
  /\ setBackendToken(NoToken)
  /\ lsActiveRole' = NoRole
  /\ delivered' = NoDelivery
  /\ lastSwitch' = NoSwitch
  /\ lastAuth' = NoRequest
  /\ picked' = NoPick
  /\ page' = Settle(page, backendToken', lsToken', activeRole')
  /\ UNCHANGED <<assigned, nextTok, rolesFetch, loginVars, error, regVars, net>>
  /\ handled' = NoStep
  /\ UNCHANGED otherMachines

\* The user follows a link or enters a location inside the running app; the
\* page left is unmounted and its own state is gone.
Navigate ==
  /\ page' \in {Settle(p, backendToken, lsToken, activeRole) :
                  p \in Visited \ {page}}
  /\ IF page' # page
     THEN /\ profileId' = FALSE
          /\ availableRoles' = {}
          /\ showRoleSelector' = FALSE
          /\ error' = "none"
          /\ selected' = {}
          /\ showSelector' = FALSE
     ELSE UNCHANGED <<profileId, availableRoles, showRoleSelector, error,
                      selected, showSelector>>
  /\ UNCHANGED <<assigned, nextTok, sbSession, storeVars, lastAuth,
                 supabaseUser, user, roles, rolesFetch, loginPc, regPc, net,
                 picked, lastSwitch>>
  /\ handled' = NoStep
  /\ UNCHANGED otherMachines

\* A page of the farmer area sends a request through services/api.js
\* (FarmerDashboard.loadData).
ApiRequest ==
  /\ page \in FarmerPaths
  /\ supabaseUser
  /\ lastAuth' = Sent(ServicesApiHeader)
  /\ UNCHANGED <<assigned, nextTok, sbSession, storeVars, supabaseUser, user,
                 roles, rolesFetch, loginVars, error, regVars, page, net,
                 picked, lastSwitch>>
  /\ handled' = NoStep
  /\ UNCHANGED otherMachines

\* A page of the farmer area sends a request through api/client.js
\* (farmerApi.getDashboardSummary / listProductionUnits).
ClientRequest ==
  /\ page \in FarmerPaths
  /\ supabaseUser
  /\ lastAuth' = Sent(ClientApiHeader)
  /\ UNCHANGED <<assigned, nextTok, sbSession, storeVars, supabaseUser, user,
                 roles, rolesFetch, loginVars, error, regVars, page, net,
                 picked, lastSwitch>>
  /\ handled' = NoStep
  /\ UNCHANGED otherMachines

\* An administrator takes a role away from the user.
RevokeRole ==
  /\ \E r \in assigned : assigned' = assigned \ {r}
  /\ UNCHANGED <<nextTok, sbSession, storeVars, lastAuth, supabaseUser, user,
                 roles, rolesFetch, loginVars, error, regVars, page, net,
                 picked, lastSwitch>>
  /\ handled' = NoStep
  /\ UNCHANGED otherMachines

(***************************************************************************)
(* Production-unit machine                                                 *)
(***************************************************************************)
\* null / undefined of a numeric or text field; 0 stands for "" and 0.
Missing == -1
Falsy(v) == v = Missing \/ v = 0
NullValue == [null |-> TRUE]
\* due_date of a task: none (null), or a date that lies before or after the
\* moment the task list is rendered.
DueValues == {"none", "past", "future"}
\* today = new Date() of StageTaskList, and new Date(task.due_date), as
\* points in time.
Today == 2
DateValue(due_date) == IF due_date = "past" THEN Today - 1 ELSE Today + 1

RECURSIVE Flatten(_)
\* The tasks of all stages, in stage order and then task order.
Flatten(stages) ==
  IF stages = <<>> THEN <<>>
  ELSE Head(stages).tasks \o Flatten(Tail(stages))

Total(stages) == Len(Flatten(stages))
Completed(stages) ==
  Cardinality({k \in 1..Total(stages) : Flatten(stages)[k].completed})

\* Backend: overall percent-complete, completed tasks over all tasks.
computeProgress(stages) ==
  IF Total(stages) = 0 THEN 0
  ELSE (100 * Completed(stages)) \div Total(stages)

\* Backend: index (from 0) of the first stage with an incomplete task.
computeActiveStageIndex(stages) ==
  LET open == {i \in 1..Len(stages) :
                 \E j \in 1..Len(stages[i].tasks) :
                   ~stages[i].tasks[j].completed}
  IN  IF open = {} THEN Missing
      ELSE (CHOOSE i \in open : \A k \in open : i <= k) - 1

\* Backend: title of the first incomplete task, whatever its due date.
computeNextTask(stages) ==
  LET all == Flatten(stages)
      open == {k \in 1..Len(all) : ~all[k].completed}
  IN  IF open = {} THEN Missing
      ELSE all[CHOOSE k \in open : \A l \in open : k <= l].title

\* Backend: the body of GET /farmer/production-unit/:id; p is the progress
\* field it sends.
UnitResponse(stages, p) ==
  LET a == computeActiveStageIndex(stages)
  IN  [loaded |-> TRUE,
       stages |-> stages,
       progress |-> p,
       active_stage_index |-> a,
       active_stage |-> IF a = Missing THEN Missing ELSE stages[a + 1].title,
       active_stage_id |-> IF a = Missing THEN Missing ELSE stages[a + 1].id,
       next_task |-> computeNextTask(stages)]

\* A unit without tasks has no ratio; the backend sends 0 or no value.
ProgressField(stages) ==
  IF Total(stages) = 0 THEN {0, Missing} ELSE {computeProgress(stages)}

NoUnit ==
  [loaded |-> FALSE, stages |-> <<>>, progress |-> Missing,
   active_stage_index |-> Missing, active_stage |-> Missing,
   active_stage_id |-> Missing, next_task |-> Missing]

\* obj?.name of JavaScript: undefined when the object has no such field.
Field(obj, name) == IF name \in DOMAIN obj THEN obj[name] ELSE Missing

\* A progress display without the "|| 0" default.
ShownProgressRaw(u) == u.progress
\* {unit.progress || 0}% of ProductionUnitCard and ProductionUnitView.
ShownProgress(u) == IF Falsy(u.progress) THEN 0 ELSE u.progress

Hidden == [title |-> Missing, position |-> 0, of |-> 0]
\* ActiveStageCard: nothing without unit.active_stage, else its title and
\* "(active_stage_index + 1 of stages.length)".
ActiveStageCard(u) ==
  IF Falsy(u.active_stage) THEN Hidden
  ELSE [title |-> u.active_stage,
        position |-> u.active_stage_index + 1,
        of |-> Len(u.stages)]

NoUpcomingTasks == 0
\* A next-task line without the "No upcoming tasks" default.
NextTaskLabelRaw(u) == u.next_task
\* {unit.next_task || "No upcoming tasks"} of ProductionUnitCard.
NextTaskLabel(u) ==
  IF Falsy(u.next_task) THEN NoUpcomingTasks ELSE u.next_task

\* An isOverdue that does not look at task.completed.
isOverdueDespiteCompleted(task, today) ==
  IF task.due = "none" THEN FALSE
  ELSE DateValue(task.due) < today
\* isOverdue of ProductionUnitDetail: false without due_date or when
\* completed, else new Date(task.due_date) < today.
isOverdue(task, today) ==
  IF task.due = "none" \/ task.completed THEN FALSE
  ELSE DateValue(task.due) < today

\* The compare function StageTaskList gives to sort.
compareTasks(a, b, today) ==
  LET aOver == isOverdue(a, today)
      bOver == isOverdue(b, today)
  IN  IF aOver /\ ~bOver THEN -1
      ELSE IF ~aOver /\ bOver THEN 1
      ELSE IF ~a.completed /\ b.completed THEN -1
      ELSE IF a.completed /\ ~b.completed THEN 1
      ELSE 0

\* Array.prototype.sort is stable: an element goes before the first element
\* already placed that the compare function puts after it.
InsertTask(placed, t, today) ==
  LET after == {k \in 1..Len(placed) : compareTasks(placed[k], t, today) > 0}
      at == IF after = {} THEN Len(placed) + 1
            ELSE CHOOSE k \in after : \A l \in after : k <= l
  IN  SubSeq(placed, 1, at - 1) \o <<t>> \o SubSeq(placed, at, Len(placed))

RECURSIVE SortTasks(_, _, _)
SortTasks(placed, rest, today) ==
  IF rest = <<>> THEN placed
  ELSE SortTasks(InsertTask(placed, Head(rest), today), Tail(rest), today)

\* sortedTasks of StageTaskList: [...(stage.tasks || [])].sort(compare), a
\* sorted copy for display.
sortedTasks(stageTasks) == SortTasks(<<>>, stageTasks, Today)

RECURSIVE Before(_, _)
\* The number of tasks in the stages before stage i.
Before(cnt, i) == IF i = 1 THEN 0 ELSE cnt[i - 1] + Before(cnt, i - 1)

\* Stage sizes of the units followed: up to MaxStages stages of up to
\* MaxStageTasks tasks, MaxUnitTasks tasks in all.
Shapes ==
  {cnt \in UNION {[1..n -> 0..MaxStageTasks] : n \in 0..MaxStages} :
     Before(cnt, Len(cnt) + 1) <= MaxUnitTasks}

\* A unit as created: stages 1..n with tasks, none completed yet.
NewUnit(cnt, due) ==
  [i \in 1..Len(cnt) |->
     [id |-> i, title |-> i,
      tasks |-> [j \in 1..cnt[i] |->
                   [id |-> 10 * i + j, title |-> 10 * i + j,
                    completed |-> FALSE, due |-> due[Before(cnt, i) + j]]]]]

NewUnits ==
  UNION {{NewUnit(cnt, due) :
            due \in [1..Before(cnt, Len(cnt) + 1) -> DueValues]} :
         cnt \in Shapes}

GetUnit == [op |-> "get", id |-> 0, completed |-> FALSE]
IdleUnit == [op |-> "idle", id |-> 0, completed |-> FALSE]

\* ProductionUnitView has been opened and its mount effect has sent the GET.
InitUnitView ==
  /\ unitPage = "view"
  /\ unit = NoUnit
  /\ stageId = 0
  /\ unitPc = GetUnit

InitUnit ==
  /\ srvUnit \in NewUnits
  /\ InitUnitView

unitOthers == <<sessionVars, apiVars, boardVars, dbVars, editorVars,
                guardVars>>

\* ProductionUnitView is opened (again) from another page, or after it
\* failed to show the unit: useEffect calls loadUnit.
OpenUnitView ==
  /\ unitPc.op = "idle"
  /\ ~(unitPage = "view" /\ unit.loaded)
  /\ unitPage' = "view"
  /\ unit' = NoUnit
  /\ stageId' = 0
  /\ unitPc' = GetUnit
  /\ UNCHANGED srvUnit
  /\ UNCHANGED unitOthers

\* ProductionUnitView.loadUnit from the response on: setUnit(res.data). The
\* fetch client resolves for an error status too; its body has no stages,
\* the render throws on unit.stages.map and nothing is shown.
LoadUnitReturn ==
  /\ unitPc.op = "get"
  /\ unitPc' = IdleUnit
  /\ \E outcome \in {"throw", "error", "ok"} :
       IF outcome = "ok"
       THEN \E p \in ProgressField(srvUnit) :
              unit' = UnitResponse(srvUnit, p)
       ELSE IF outcome = "error" THEN unit' = NoUnit
       ELSE unit' = unit
  /\ UNCHANGED <<srvUnit, unitPage, stageId>>
  /\ UNCHANGED unitOthers

\* ProductionUnitView.toggleTaskCompletion up to the PUT.
ToggleTaskCompletion ==
  /\ unitPage = "view"
  /\ unitPc.op = "idle"
  /\ unit.loaded
  /\ \E i \in 1..Len(unit.stages) :
       \E j \in 1..Len(unit.stages[i].tasks) :
         LET task == unit.stages[i].tasks[j]
         IN  unitPc' = [op |-> "put", id |-> task.id,
                        completed |-> ~task.completed]
  /\ UNCHANGED <<srvUnit, unitPage, unit, stageId>>
  /\ UNCHANGED unitOthers

\* The backend stores the completion flag of task id.
SetCompleted(stages, id, c) ==
  [i \in 1..Len(stages) |->
     [stages[i] EXCEPT !.tasks =
        [j \in 1..Len(stages[i].tasks) |->
           IF stages[i].tasks[j].id = id
           THEN [stages[i].tasks[j] EXCEPT !.completed = c]
           ELSE stages[i].tasks[j]]]]

\* ProductionUnitView.toggleTaskCompletion from the PUT's response on: the
\* unit is loaded again unless the request threw.
ToggleReturn ==
  /\ unitPc.op = "put"
  /\ \E outcome \in {"throw", "error", "ok"} :
       /\ srvUnit' = IF outcome = "ok"
                     THEN SetCompleted(srvUnit, unitPc.id, unitPc.completed)
                     ELSE srvUnit
       /\ unitPc' = IF outcome = "throw" THEN IdleUnit ELSE GetUnit
  /\ UNCHANGED <<unitPage, unit, stageId>>
  /\ UNCHANGED unitOthers

\* farmerApi.getProductionUnit: { ok: true, data: res.data }, or
\* safeReturn(null) when the request failed.
getProductionUnit(outcome, body) ==
  IF outcome = "ok" THEN [ok |-> TRUE, data |-> body]
  ELSE [ok |-> FALSE, data |-> NullValue]

\* ProductionUnitDetail is opened and its loadUnit runs: data = res?.data;
\* setUnit(null) without data, else setUnit(data).
OpenUnitDetail ==
  /\ unitPc.op = "idle"
  /\ \E outcome \in {"fail", "ok"} :
       \E p \in ProgressField(srvUnit) :
         LET res == getProductionUnit(outcome, UnitResponse(srvUnit, p))
             data == res.data
         IN  unit' = IF data = NullValue THEN NoUnit ELSE data
  /\ unitPage' = "detail"
  /\ stageId' = 0
  /\ UNCHANGED <<srvUnit, unitPc>>
  /\ UNCHANGED unitOthers

\* OperationLogForm is opened and its loadUnit runs: data is what
\* getProductionUnit returned; setUnit(data || null);
\* if (data?.active_stage_id) setStageId(data.active_stage_id).
OpenOperationLogForm ==
  /\ unitPc.op = "idle"
  /\ \E outcome \in {"fail", "ok"} :
       \E p \in ProgressField(srvUnit) :
         LET data == getProductionUnit(outcome, UnitResponse(srvUnit, p))
         IN  /\ unit' = data
             /\ stageId' = IF ~Falsy(Field(data, "active_stage_id"))
                           THEN Field(data, "active_stage_id")
                           ELSE 0
  /\ unitPage' = "form"
  /\ UNCHANGED <<srvUnit, unitPc>>
  /\ UNCHANGED unitOthers

\* A ProductionUnitCard is rendered for the unit's entry in the backend's
\* unit list.
RenderUnitCard ==
  /\ unitPc.op = "idle"
  /\ \E p \in ProgressField(srvUnit) :
       unit' = UnitResponse(srvUnit, p)
  /\ unitPage' = "card"
  /\ stageId' = 0
  /\ UNCHANGED <<srvUnit, unitPc>>
  /\ UNCHANGED unitOthers

NextUnit ==
  \/ OpenUnitView
  \/ LoadUnitReturn
  \/ ToggleTaskCompletion
  \/ ToggleReturn
  \/ OpenUnitDetail
  \/ OpenOperationLogForm
  \/ RenderUnitCard

(***************************************************************************)
(* Farmer API wrapper (api/farmer.js over the axios client)                *)
(***************************************************************************)
ReadOps == {"getDashboardSummary", "listProductionUnits", "getProductionUnit"}

\* safeReturn(defaultValue); null is Missing, [] is <<>>.
safeReturn(defaultValue) == [ok |-> FALSE, data |-> defaultValue]

\* The default each read operation passes to safeReturn.
DefaultOf(op) == IF op = "listProductionUnits" THEN <<>> ELSE Missing

\* Only the summary checks its user id.
GuardsMissingIdSummaryOnly(op) == op = "getDashboardSummary"
\* The operations that start with  if (!userId) return safeReturn(...).
GuardsMissingId(op) == op \in {"getDashboardSummary", "listProductionUnits"}

\* The operations whose request is inside try { } catch { return safeReturn }.
CatchesError(op) == op \in ReadOps

\* Response bodies: a summary or unit (1, 2) or null; for the list an object
\* whose units field is absent or a list.
Bodies(op) ==
  IF op = "listProductionUnits"
  THEN {[units |-> u] : u \in {<<>>, <<1>>, <<1, 2>>}} \cup {[other |-> 0]}
  ELSE {[value |-> v] : v \in {Missing, 1, 2}}

\* What the operation returns for a response with this body.
OkResult(op, body) ==
  IF op = "listProductionUnits"
  THEN [ok |-> TRUE,
        data |-> IF "units" \in DOMAIN body THEN body.units ELSE <<>>]
  ELSE [ok |-> TRUE, data |-> body.value]

NoCall == [op |-> "none", arg |-> "none", sentBefore |-> 0, outcome |-> "none"]

InitApi ==
  /\ apiCall = NoCall
  /\ apiPc = "idle"
  /\ apiSent = 0
  /\ apiResult = safeReturn(Missing)

apiOthers == <<sessionVars, unitVars, boardVars, dbVars, editorVars,
               guardVars>>

\* A read operation is called with an id that is present or missing; it
\* returns the default at once or sends its GET.
ApiCall ==
  /\ apiPc \in {"idle", "returned"}
  /\ apiSent < MaxApiRequests
  /\ \E op \in ReadOps, arg \in {"present", "missing"} :
       /\ apiCall' = [op |-> op, arg |-> arg, sentBefore |-> apiSent,
                      outcome |-> "none"]
       /\ IF GuardsMissingId(op) /\ arg = "missing"
          THEN /\ apiResult' = safeReturn(DefaultOf(op))
               /\ apiPc' = "returned"
               /\ apiSent' = apiSent
          ELSE /\ apiPc' = "waiting"
               /\ apiSent' = apiSent + 1
               /\ apiResult' = apiResult
  /\ UNCHANGED apiOthers

\* The GET settles: axios resolves with the body or rejects.
ApiReturn ==
  /\ apiPc = "waiting"
  /\ \E outcome \in {"fail", "ok"} :
       /\ apiCall' = [apiCall EXCEPT !.outcome = outcome]
       /\ IF outcome = "ok"
          THEN /\ \E body \in Bodies(apiCall.op) :
                    apiResult' = OkResult(apiCall.op, body)
               /\ apiPc' = "returned"
          ELSE IF CatchesError(apiCall.op)
          THEN /\ apiResult' = safeReturn(DefaultOf(apiCall.op))
               /\ apiPc' = "returned"
          ELSE /\ apiResult' = apiResult
               /\ apiPc' = "threw"
  /\ apiSent' = apiSent
  /\ UNCHANGED apiOthers

NextApi ==
  \/ ApiCall
  \/ ApiReturn

(***************************************************************************)
(* Task board (TaskBoard with drag-and-drop persistence)                   *)
(***************************************************************************)
TaskIds == 1..MaxBoardTasks
\* task_status of the schema, the ids of the three columns.
Statuses == {"pending", "in_progress", "completed"}
\* Every task card is a sortable item and so a drop target of its own.
CardTargets == {"card"}
NoTarget == "nothing"
DropTargets == Statuses \cup CardTargets

NoDrop == [id |-> 0, over |-> NoTarget, from |-> NoTarget, put |-> FALSE]

\* The board is opened on tasks as created (status pending); its mount effect
\* has sent GET /tasks.
InitBoard ==
  /\ srvTasks = [t \in TaskIds |-> "pending"]
  /\ tasks = <<>>
  /\ boardNet = {[kind |-> "get", n |-> 0, id |-> 0, status |-> NoTarget,
                  st |-> "sent", snap |-> <<>>]}
  /\ drops = 0
  /\ lastDrop = NoDrop
  /\ rollback = {}

boardOthers == <<sessionVars, unitVars, apiVars, dbVars, editorVars,
                 guardVars>>

GetRequest(n) ==
  [kind |-> "get", n |-> n, id |-> 0, status |-> NoTarget, st |-> "sent",
   snap |-> <<>>]
PutRequest(n, taskId, newStatus) ==
  [kind |-> "put", n |-> n, id |-> taskId, status |-> newStatus,
   st |-> "sent", snap |-> <<>>]

\* handleDragEnd: no target, unknown task or unchanged status return; else
\* the optimistic update and PUT /tasks/:id { status: newStatus }.
handleDragEnd ==
  /\ drops < MaxDrops
  /\ \E taskId \in DOMAIN tasks, over \in DropTargets \cup {NoTarget} :
       LET newStatus == over
           sends == over # NoTarget /\ tasks[taskId] # newStatus
       IN  /\ drops' = drops + 1
           /\ lastDrop' = [id |-> taskId, over |-> over,
                           from |-> tasks[taskId], put |-> sends]
           /\ IF sends
              THEN /\ tasks' = [tasks EXCEPT ![taskId] = newStatus]
                   /\ boardNet' = boardNet \cup
                                    {PutRequest(drops', taskId, newStatus)}
                   /\ rollback' = rollback \ {taskId}
              ELSE UNCHANGED <<tasks, boardNet, rollback>>
  /\ UNCHANGED srvTasks
  /\ UNCHANGED boardOthers

\* The backend handles PUT /tasks/:id; a status outside task_status is
\* refused.
ServerPut ==
  /\ \E m \in boardNet :
       /\ m.kind = "put" /\ m.st = "sent" /\ m.status \in Statuses
       /\ srvTasks' = [srvTasks EXCEPT ![m.id] = m.status]
       /\ boardNet' = (boardNet \ {m}) \cup {[m EXCEPT !.st = "applied"]}
  /\ UNCHANGED <<tasks, drops, lastDrop, rollback>>
  /\ UNCHANGED boardOthers

\* .then of the PUT: nothing to do.
PutResolved ==
  /\ \E m \in boardNet :
       /\ m.kind = "put" /\ m.st = "applied"
       /\ boardNet' = boardNet \ {m}
  /\ UNCHANGED <<srvTasks, tasks, drops, lastDrop, rollback>>
  /\ UNCHANGED boardOthers

\* .catch of the PUT (refused, or no response): loadTasks().
PutRejected ==
  /\ \E m \in boardNet :
       /\ m.kind = "put"
       /\ boardNet' = (boardNet \ {m}) \cup {GetRequest(m.n)}
       /\ rollback' = IF m.status \in Statuses THEN rollback \cup {m.id}
                      ELSE rollback
  /\ UNCHANGED <<srvTasks, tasks, drops, lastDrop>>
  /\ UNCHANGED boardOthers

\* The backend answers GET /tasks with the tasks it stores.
ServerGet ==
  /\ \E m \in boardNet :
       /\ m.kind = "get" /\ m.st = "sent"
       /\ boardNet' = (boardNet \ {m}) \cup
                        {[m EXCEPT !.st = "answered", !.snap = srvTasks]}
  /\ UNCHANGED <<srvTasks, tasks, drops, lastDrop, rollback>>
  /\ UNCHANGED boardOthers

\* loadTasks: .then((res) => setTasks(res.data)).
GetResolved ==
  /\ \E m \in boardNet :
       /\ m.kind = "get" /\ m.st = "answered"
       /\ tasks' = m.snap
       /\ boardNet' = boardNet \ {m}
  /\ UNCHANGED <<srvTasks, drops, lastDrop, rollback>>
  /\ UNCHANGED boardOthers

\* loadTasks: .catch(() => {}).
GetRejected ==
  /\ \E m \in boardNet :
       /\ m.kind = "get"
       /\ boardNet' = boardNet \ {m}
  /\ UNCHANGED <<srvTasks, tasks, drops, lastDrop, rollback>>
  /\ UNCHANGED boardOthers

NextBoard ==
  \/ handleDragEnd
  \/ ServerPut
  \/ PutResolved
  \/ PutRejected
  \/ ServerGet
  \/ GetResolved
  \/ GetRejected

(***************************************************************************)
(* Database (00_schema.sql, the demo seed scripts, the requests that       *)
(* create and delete projects and tasks)                                   *)
(***************************************************************************)
NULL == 0

\* Text is a sequence of pieces; 'Task ' || g is <<"Task ", g>>.
CONCAT(a, b) == <<a, b>>
\* text LIKE 'prefix%'.
Like(text, prefix) ==
  /\ Len(text) >= Len(prefix)
  /\ SubSeq(text, 1, Len(prefix)) = prefix

\* The rows 02_demo_profiles_and_projects.sql inserts.
DemoEmails ==
  <<"ramesh.kumar@example.com", "priya.sharma@example.com",
    "anil.desai@example.com", "sunita.rao@example.com",
    "vikram.singh@example.com", "meena.iyer@example.com",
    "deepak.chawla@example.com">>
DemoProjectNames ==
  <<"Krishi Support System", "Crop Analytics Dashboard",
    "Task Automation Engine">>
Range(seq) == {seq[k] : k \in DOMAIN seq}

\* What the application's users enter: an e-mail address, a project name, a
\* task's title and description.
UserEmails == {"ramesh.kumar@example.com", "asha@farm.example"}
UserProjectNames == {"Krishi Support System", "Paddy Field Plan"}
UserTexts ==
  {[title |-> <<"Task ", "force review">>, description |-> <<"Weekly">>],
   [title |-> <<"Task ", "7">>,
    description |-> <<"Demo task number ", "7 of the field plan">>]}

\* gen_random_uuid(): the k-th row of the INSERT statement that ran at stamp.
NewId(stamp, k) == 10 * stamp + k

\* ORDER BY created_at LIMIT n: n rows none of which is newer than a row
\* left out; rows of one statement have the same created_at.
FirstBy(rows, n) ==
  {S \in SUBSET rows :
     /\ Cardinality(S) = (IF Cardinality(rows) < n THEN Cardinality(rows)
                          ELSE n)
     /\ \A a \in S, b \in rows \ S : a.at <= b.at}

\* (SELECT id FROM rows ORDER BY random() LIMIT 1): NULL without rows.
RandomId(rows) == IF rows = {} THEN {NULL} ELSE {r.id : r \in rows}

\* tasks.project_id REFERENCES projects(id) ON DELETE SET NULL: the tasks of
\* a deleted project stay, without a project.
CascadeSetNull(rows, gone) ==
  {IF t.project_id \in gone THEN [t EXCEPT !.project_id = NULL] ELSE t :
     t \in rows}
\* tasks.project_id REFERENCES projects(id) ON DELETE CASCADE: the tasks that
\* are left when the projects with these ids are deleted.
Cascade(rows, gone) == {t \in rows : t.project_id \notin gone}

NoOp == [op |-> "none", id |-> NULL, ok |-> FALSE, removed |-> 0]
Inserted == [op |-> "insert", id |-> NULL, ok |-> TRUE, removed |-> 0]
Ran(op, id, ok, removed) ==
  [op |-> op, id |-> id, ok |-> ok, removed |-> removed]

InitDb ==
  /\ profiles = {}
  /\ projects = {}
  /\ taskRows = {}
  /\ clock = 0
  /\ dbOp = NoOp

dbOthers == <<sessionVars, unitVars, apiVars, boardVars, editorVars,
              guardVars>>

\* A profile is created for a user who signs up; email is UNIQUE.
CreateProfile ==
  /\ clock < MaxInserts
  /\ clock' = clock + 1
  /\ \E email \in UserEmails :
       /\ \A r \in profiles : r.email # email
       /\ profiles' = profiles \cup {[email |-> email, seed |-> FALSE]}
  /\ dbOp' = Inserted
  /\ UNCHANGED <<projects, taskRows>>
  /\ UNCHANGED dbOthers

\* POST /projects { name, description }.
CreateProject ==
  /\ clock < MaxInserts
  /\ clock' = clock + 1
  /\ \E name \in UserProjectNames :
       projects' = projects \cup
         {[id |-> NewId(clock', 1), name |-> name, at |-> clock',
           seed |-> FALSE]}
  /\ dbOp' = Inserted
  /\ UNCHANGED <<profiles, taskRows>>
  /\ UNCHANGED dbOthers

\* CreateTaskPanel.createTask: a title and a project of the list are
\* required; POST /tasks { title, description, status, priority, project_id }.
createTask ==
  /\ clock < MaxInserts
  /\ clock' = clock + 1
  /\ \E selectedProject \in {r.id : r \in projects}, text \in UserTexts :
       taskRows' = taskRows \cup
         {[id |-> NewId(clock', 1), project_id |-> selectedProject,
           title |-> text.title, description |-> text.description,
           seed |-> FALSE]}
  /\ dbOp' = Inserted
  /\ UNCHANGED <<profiles, projects>>
  /\ UNCHANGED dbOthers

\* TaskDetail: api.delete(`/tasks/${task.id}`) deletes the task.
DeleteTask ==
  /\ \E t \in taskRows :
       /\ taskRows' = taskRows \ {t}
       /\ dbOp' = Ran("deleteTask", NULL, TRUE, 1)
  /\ UNCHANGED <<profiles, projects, clock>>
  /\ UNCHANGED dbOthers

\* The backend handles DELETE /projects/:id: DELETE FROM projects WHERE
\* id = :id, with the schema's action on the tasks that refer to the row.
ServerDeleteProject(id) ==
  /\ projects' = {r \in projects : r.id # id}
  /\ taskRows' = Cascade(taskRows, {id})

\* ProjectDetail, ConfirmDialog.onConfirm: api.delete(`/projects/${id}`);
\* a request that fails deletes nothing.
DeleteProject ==
  /\ \E p \in projects :
       /\ ServerDeleteProject(p.id)
       /\ dbOp' = Ran("deleteProject", p.id, TRUE,
                      Cardinality(taskRows \ taskRows'))
  /\ UNCHANGED <<profiles, clock>>
  /\ UNCHANGED dbOthers

\* 02_demo_profiles_and_projects.sql: the seven profiles unless the e-mail
\* address exists (ON CONFLICT(email) DO NOTHING), and the three projects.
SeedProfilesAndProjects ==
  /\ clock < MaxInserts
  /\ clock' = clock + 1
  /\ profiles' = profiles \cup
       {[email |-> DemoEmails[k], seed |-> TRUE] :
          k \in {i \in DOMAIN DemoEmails :
                   \A r \in profiles : r.email # DemoEmails[i]}}
  /\ projects' = projects \cup
       {[id |-> NewId(clock', k), name |-> DemoProjectNames[k],
         at |-> clock', seed |-> TRUE] : k \in DOMAIN DemoProjectNames}
  /\ dbOp' = Inserted
  /\ UNCHANGED taskRows
  /\ UNCHANGED dbOthers

\* 03_demo_tasks.sql: generate_series tasks 'Task g' / 'Demo task number g'
\* on one of the three oldest projects; the scalar subquery is evaluated once
\* for the statement.  assignee_id and reporter_id are set by this script
\* only, on tasks that 04_delete_demo_data deletes first, and are not
\* followed.
SeedTasks ==
  /\ clock < MaxInserts
  /\ clock' = clock + 1
  /\ \E proj \in FirstBy(projects, 3) :
       \E project_id \in RandomId(proj) :
         taskRows' = taskRows \cup
           {[id |-> NewId(clock', g), project_id |-> project_id,
             title |-> CONCAT("Task ", g),
             description |-> CONCAT("Demo task number ", g),
             seed |-> TRUE] : g \in 1..MaxSeedTasks}
  /\ dbOp' = Inserted
  /\ UNCHANGED <<profiles, projects>>
  /\ UNCHANGED dbOthers

\* 04_delete_demo_data.sql, its three statements in turn.
DeleteDemoData ==
  LET demoTasks == {t \in taskRows :
                      /\ Like(t.title, <<"Task ">>)
                      /\ Like(t.description, <<"Demo task number ">>)}
      demoProjects == {r \in projects : r.name \in Range(DemoProjectNames)}
      demoProfiles == {r \in profiles : r.email \in Range(DemoEmails)}
  IN  /\ taskRows' = Cascade(taskRows \ demoTasks,
                             {r.id : r \in demoProjects})
      /\ projects' = projects \ demoProjects
      /\ profiles' = profiles \ demoProfiles
      /\ dbOp' = Ran("deleteDemoData", NULL, TRUE,
                     Cardinality(taskRows \ taskRows'))
      /\ UNCHANGED clock
      /\ UNCHANGED dbOthers

NextDb ==
  \/ CreateProfile
  \/ CreateProject
  \/ createTask
  \/ DeleteTask
  \/ DeleteProject
  \/ SeedProfilesAndProjects
  \/ SeedTasks
  \/ DeleteDemoData

(***************************************************************************)
(* Stage template editor (StageTemplateEditor.jsx)                         *)
(***************************************************************************)
\* TEMPLATE_LIBRARY, of which these stages and tasks are followed.
TEMPLATE_LIBRARY ==
  [rice |-> <<[title |-> "Irrigation", tasks |-> <<"Set schedule">>],
              [title |-> "Harvest", tasks |-> <<"Harvest crop">>]>>,
   tomato |-> <<[title |-> "Irrigation", tasks |-> <<"Drip setup">>]>>]
OptionIds == DOMAIN TEMPLATE_LIBRARY

\* stage.title.trim().toLowerCase().
TitleKey(title) ==
  CASE title = "Irrigation" -> "irrigation"
    [] title = "Harvest" -> "harvest"
    [] title = "New Stage" -> "new stage"
    [] title = "Mulching" -> "mulching"
    [] OTHER -> title

\* What the user types into a title input.
TypedStageTitles == {"Mulching"}
TypedTaskTitles == {"Weeding"}

\* uuidv4(): an id that no stage of the editor has, or no task of the
\* stage (task ids are compared within their stage only).
StageIdsOf(list) == {list[i].id : i \in DOMAIN list}
TaskIdsOf(list) == {list[j].id : j \in DOMAIN list}
Fresh(used) == CHOOSE n \in 1..(Cardinality(used) + 1) : n \notin used

\* mergeTemplates, one template stage: a stage with a new title key is
\* appended with its tasks; otherwise the tasks the stage of that key does
\* not have by title are appended to it.
RECURSIVE AppendTasks(_, _, _)
AppendTasks(list, i, titles) ==
  IF titles = <<>> THEN list
  ELSE LET t == Head(titles)
           has == \E j \in DOMAIN list[i].tasks : list[i].tasks[j].title = t
           next == IF has THEN list
                   ELSE [list EXCEPT ![i].tasks =
                           Append(@, [id |-> Fresh(TaskIdsOf(list[i].tasks)),
                                      title |-> t])]
       IN  AppendTasks(next, i, Tail(titles))

MergeStage(merged, stage) ==
  LET seen == {i \in DOMAIN merged :
                 TitleKey(merged[i].title) = TitleKey(stage.title)}
  IN  IF seen = {}
      THEN AppendTasks(Append(merged, [id |-> Fresh(StageIdsOf(merged)),
                                       title |-> stage.title,
                                       tasks |-> <<>>]),
                       Len(merged) + 1, stage.tasks)
      ELSE AppendTasks(merged, CHOOSE i \in seen : TRUE, stage.tasks)

RECURSIVE MergeTemplate(_, _)
MergeTemplate(merged, tpl) ==
  IF tpl = <<>> THEN merged
  ELSE MergeTemplate(MergeStage(merged, Head(tpl)), Tail(tpl))

RECURSIVE mergeTemplates(_, _)
mergeTemplates(merged, optionIds) ==
  IF optionIds = <<>> THEN merged
  ELSE mergeTemplates(MergeTemplate(merged, TEMPLATE_LIBRARY[Head(optionIds)]),
                      Tail(optionIds))

NoPayload == [sent |-> FALSE, stages |-> <<>>]

\* order: idx, the index from 0.
OrderFromZero(idx) == idx
\* order: idx + 1, for the index idx from 0.
Order(idx) == idx + 1

\* The stages of handleSave's payload.
PayloadStages(list) ==
  [i \in DOMAIN list |->
     [title |-> list[i].title,
      order |-> Order(i - 1),
      tasks |-> [j \in DOMAIN list[i].tasks |->
                   [title |-> list[i].tasks[j].title,
                    order |-> Order(j - 1)]]]]

\* The editor is opened with one or two selected options; the mount effect
\* has merged their templates.
InitEditor ==
  /\ selectedOptions \in {<<"rice">>, <<"tomato", "rice">>}
  /\ edStages = mergeTemplates(<<>>, selectedOptions)
  /\ saving = FALSE
  /\ payload = NoPayload
  /\ edMounted = TRUE

editorOthers == <<sessionVars, unitVars, apiVars, boardVars, dbVars,
                  guardVars>>

addStage ==
  /\ edMounted
  /\ Len(edStages) < MaxEditorStages
  /\ edStages' = Append(edStages, [id |-> Fresh(StageIdsOf(edStages)),
                                   title |-> "New Stage", tasks |-> <<>>])
  /\ payload' = NoPayload
  /\ UNCHANGED <<selectedOptions, saving, edMounted>>
  /\ UNCHANGED editorOthers

removeStage ==
  /\ edMounted
  /\ \E sid \in StageIdsOf(edStages) :
       edStages' = SelectSeq(edStages, LAMBDA st : st.id # sid)
  /\ payload' = NoPayload
  /\ UNCHANGED <<selectedOptions, saving, edMounted>>
  /\ UNCHANGED editorOthers

\* moveStage(index, dir) of the Up and Down buttons; index counts from 0.
moveStage ==
  /\ edMounted
  /\ \E index \in 0..(Len(edStages) - 1), dir \in {-1, 1} :
       LET a == index + 1
           b == index + dir + 1
       IN  edStages' = IF b \notin DOMAIN edStages THEN edStages
                       ELSE [edStages EXCEPT ![a] = edStages[b],
                                             ![b] = edStages[a]]
  /\ payload' = NoPayload
  /\ UNCHANGED <<selectedOptions, saving, edMounted>>
  /\ UNCHANGED editorOthers

updateStageTitle ==
  /\ edMounted
  /\ \E id \in StageIdsOf(edStages), title \in TypedStageTitles :
       edStages' = [i \in DOMAIN edStages |->
                      IF edStages[i].id = id
                      THEN [edStages[i] EXCEPT !.title = title]
                      ELSE edStages[i]]
  /\ payload' = NoPayload
  /\ UNCHANGED <<selectedOptions, saving, edMounted>>
  /\ UNCHANGED editorOthers

addTask ==
  /\ edMounted
  /\ \E i \in DOMAIN edStages :
       /\ Len(Flatten(edStages)) < MaxEditorTasks
       /\ edStages' = [k \in DOMAIN edStages |->
                         IF edStages[k].id = edStages[i].id
                         THEN [edStages[k] EXCEPT !.tasks =
                                 Append(@, [id |-> Fresh(TaskIdsOf(@)),
                                            title |-> "New task"])]
                         ELSE edStages[k]]
  /\ payload' = NoPayload
  /\ UNCHANGED <<selectedOptions, saving, edMounted>>
  /\ UNCHANGED editorOthers

updateTaskTitle ==
  /\ edMounted
  /\ \E i \in DOMAIN edStages, title \in TypedTaskTitles :
       \E j \in DOMAIN edStages[i].tasks :
         LET sid == edStages[i].id
             tid == edStages[i].tasks[j].id
         IN  edStages' =
               [k \in DOMAIN edStages |->
                  IF edStages[k].id = sid
                  THEN [edStages[k] EXCEPT !.tasks =
                          [l \in DOMAIN @ |->
                             IF @[l].id = tid
                             THEN [@[l] EXCEPT !.title = title]
                             ELSE @[l]]]
                  ELSE edStages[k]]
  /\ payload' = NoPayload
  /\ UNCHANGED <<selectedOptions, saving, edMounted>>
  /\ UNCHANGED editorOthers

removeTask ==
  /\ edMounted
  /\ \E i \in DOMAIN edStages :
       \E j \in DOMAIN edStages[i].tasks :
         LET sid == edStages[i].id
             tid == edStages[i].tasks[j].id
         IN  edStages' =
               [k \in DOMAIN edStages |->
                  IF edStages[k].id = sid
                  THEN [edStages[k] EXCEPT !.tasks =
                          SelectSeq(@, LAMBDA t : t.id # tid)]
                  ELSE edStages[k]]
  /\ payload' = NoPayload
  /\ UNCHANGED <<selectedOptions, saving, edMounted>>
  /\ UNCHANGED editorOthers

\* handleSave up to the POST; without a signed-in user it only alerts.
handleSave ==
  /\ edMounted
  /\ ~saving
  /\ \E signedIn \in BOOLEAN :
       IF signedIn
       THEN /\ saving' = TRUE
            /\ payload' = [sent |-> TRUE, stages |-> PayloadStages(edStages)]
       ELSE /\ payload' = NoPayload
            /\ UNCHANGED saving
  /\ UNCHANGED <<selectedOptions, edStages, edMounted>>
  /\ UNCHANGED editorOthers

\* handleSave from the response on: navigate to the unit, or alert; finally
\* setSaving(false).
SaveReturn ==
  /\ saving
  /\ saving' = FALSE
  /\ \E outcome \in {"throw", "ok"} :
       edMounted' = (edMounted /\ outcome = "throw")
  /\ payload' = NoPayload
  /\ UNCHANGED <<selectedOptions, edStages>>
  /\ UNCHANGED editorOthers

NextEditor ==
  \/ addStage
  \/ removeStage
  \/ moveStage
  \/ updateStageTitle
  \/ addTask
  \/ updateTaskTitle
  \/ removeTask
  \/ handleSave
  \/ SaveReturn

(***************************************************************************)
(* Route guard with role redirects (the first ProtectedRoute of Header.jsx) *)
(* on the routes of App, with DashboardRouter                              *)
(***************************************************************************)
\* The guard and DashboardRouter read activeRole as text: a sequence of
\* characters here, so that its letter case is there to be folded.  The
\* empty sequence stands for null and "", which !activeRole both takes.
NoActiveRole == <<>>
Uppers == <<"A", "D", "E", "F", "I", "K", "M", "N", "O", "R", "T", "W">>
Lowers == <<"a", "d", "e", "f", "i", "k", "m", "n", "o", "r", "t", "w">>
RoleSpelling ==
  [admin |-> <<"a", "d", "m", "i", "n">>,
   farmer |-> <<"f", "a", "r", "m", "e", "r">>,
   worker |-> <<"w", "o", "r", "k", "e", "r">>,
   trader |-> <<"t", "r", "a", "d", "e", "r">>]
\* Values of activeRole the context is followed with: the four roles in
\* several capitalisations, and values that are none of them.
ActiveRoleValues ==
  {RoleSpelling.admin, <<"A", "d", "m", "i", "n">>,
   <<"A", "D", "M", "I", "N">>,
   RoleSpelling.farmer, <<"F", "a", "r", "m", "e", "r">>,
   RoleSpelling.worker, <<"W", "O", "R", "K", "E", "R">>,
   RoleSpelling.trader, <<"T", "r", "a", "d", "e", "r">>,
   <<"m", "a", "n", "a", "g", "e", "r">>,
   <<"a", "d", "m", "i", "n", "s">>,
   <<"F", "a", "r", "m">>}

\* A toLowerCase that leaves the text as it is.
toLowerCaseKeepsCase(text) == text
\* String.prototype.toLowerCase.
toLowerCase(text) ==
  [i \in DOMAIN text |->
     IF \E k \in DOMAIN Uppers : Uppers[k] = text[i]
     THEN Lowers[CHOOSE k \in DOMAIN Uppers : Uppers[k] = text[i]]
     ELSE text[i]]

\* The characters of a text as one string, as the case labels are written.
RECURSIVE Text(_)
Text(chars) == IF chars = <<>> THEN "" ELSE chars[1] \o Text(Tail(chars))

\* What a route element returns: its children, or <Navigate to=... replace />.
Children(p) == [nav |-> FALSE, to |-> p]
NavigateTo(p) == [nav |-> TRUE, to |-> p]

\* Lengths of the stored token: none, one below the limit, the limit, a JWT.
TokenLengths == {0, MinTokenLen - 1, MinTokenLen, IssuedTokenLen}

\* ProtectedRoute with the role branches: no token or a short one goes to
\* /login, a user without roles to /register-roles, a user with roles and no
\* active role to "/", everything else renders the children.
ProtectedRouteWithRoles(p, tokenLen, u, list, ar) ==
  IF tokenLen = 0 \/ tokenLen < MinTokenLen THEN NavigateTo("/login")
  ELSE IF u /\ Cardinality(list) = 0 THEN NavigateTo("/register-roles")
  ELSE IF u /\ Cardinality(list) > 0 /\ ar = NoActiveRole
  THEN NavigateTo("/")
  ELSE Children(p)

\* DashboardRouter as an element: "Loading dashboard..." without an active
\* role, else a redirect to the role's dashboard.
LoadingDashboard == "Loading dashboard..."
UnknownRole == "Unknown role"
DashboardRouterElement(ar) ==
  IF ar = NoActiveRole THEN Children(LoadingDashboard)
  ELSE LET to == DashboardRouter(Text(toLowerCase(ar)))
       IN  IF to = "/" THEN Children(UnknownRole) ELSE NavigateTo(to)

\* The element of the route matching location p.
RouteElement(p, tokenLen, u, list, ar) ==
  IF p \in PublicPaths THEN Children(p)
  ELSE LET g == ProtectedRouteWithRoles(p, tokenLen, u, list, ar)
       IN  IF g.nav THEN g
           ELSE IF p = "/" THEN DashboardRouterElement(ar)
           ELSE g

NotRendered == "nothing yet"

\* The context hands the guard any combination of its values; the
\* application is entered at /login.
InitGuard ==
  /\ guardTokenLen \in TokenLengths
  /\ guardUser \in BOOLEAN
  /\ guardRoles \in SUBSET Roles
  /\ guardActiveRole \in ActiveRoleValues \cup {NoActiveRole}
  /\ location = "/login"
  /\ rendered = NotRendered
  /\ redirects = 0

guardOthers == <<sessionVars, unitVars, apiVars, boardVars, dbVars,
                 editorVars>>

\* The router renders the element of the route at location; a <Navigate>
\* replaces the location and the new route is rendered next.
RenderRoute ==
  /\ rendered = NotRendered
  /\ redirects < MaxRedirects
  /\ LET el == RouteElement(location, guardTokenLen, guardUser, guardRoles,
                            guardActiveRole)
     IN  IF el.nav
         THEN /\ location' = el.to
              /\ redirects' = redirects + 1
              /\ rendered' = NotRendered
         ELSE /\ rendered' = el.to
              /\ UNCHANGED <<location, redirects>>
  /\ UNCHANGED <<guardTokenLen, guardUser, guardRoles, guardActiveRole>>
  /\ UNCHANGED guardOthers

\* The user follows a link or goes back in the history, inside the running
\* application.
FollowLink ==
  /\ rendered # NotRendered
  /\ \E p \in Visited \ {location} : location' = p
  /\ rendered' = NotRendered
  /\ redirects' = 0
  /\ UNCHANGED <<guardTokenLen, guardUser, guardRoles, guardActiveRole>>
  /\ UNCHANGED guardOthers

NextGuard ==
  \/ RenderRoute
  \/ FollowLink

(***************************************************************************)
(* Specifications                                                          *)
(***************************************************************************)

Next ==
  \/ Reload
  \/ AuthStateChange
  \/ LoadUserRolesReturn
  \/ LoginSubmit
  \/ LoginRolesReturn
  \/ CreateSessionReturn
  \/ SelectRoleAtLogin
  \/ SwitchRole
  \/ SwitchRoleReturn
  \/ ToggleRole
  \/ RegSubmit
  \/ RegAssignReturn
  \/ SelectRoleAtRegistration
  \/ Logout
  \/ Navigate
  \/ ApiRequest
  \/ ClientRequest
  \/ RevokeRole

\* Each specification starts the other machines in their initial state with
\* fixed inputs and never moves them.
ParkedSession == assigned = {} /\ InitSession
ParkedUnit == srvUnit = <<>> /\ InitUnitView
ParkedApi == InitApi
ParkedBoard == InitBoard
ParkedDb == InitDb
ParkedEditor == selectedOptions = <<"rice">> /\ InitEditor
ParkedGuard ==
  /\ guardTokenLen = 0
  /\ guardUser = FALSE
  /\ guardRoles = {}
  /\ guardActiveRole = NoActiveRole
  /\ InitGuard

Init ==
  InitSession /\ ParkedUnit /\ ParkedApi /\ ParkedBoard /\ ParkedDb
    /\ ParkedEditor /\ ParkedGuard
Spec == Init /\ [][Next]_vars

InitUnitPages ==
  ParkedSession /\ InitUnit /\ ParkedApi /\ ParkedBoard /\ ParkedDb
    /\ ParkedEditor /\ ParkedGuard
SpecUnit == InitUnitPages /\ [][NextUnit]_vars

InitFarmerApi ==
  ParkedSession /\ ParkedUnit /\ InitApi /\ ParkedBoard /\ ParkedDb
    /\ ParkedEditor /\ ParkedGuard
SpecApi == InitFarmerApi /\ [][NextApi]_vars

InitTaskBoard ==
  ParkedSession /\ ParkedUnit /\ ParkedApi /\ InitBoard /\ ParkedDb
    /\ ParkedEditor /\ ParkedGuard
SpecBoard == InitTaskBoard /\ [][NextBoard]_vars

InitDatabase ==
  ParkedSession /\ ParkedUnit /\ ParkedApi /\ ParkedBoard /\ InitDb
    /\ ParkedEditor /\ ParkedGuard
SpecDb == InitDatabase /\ [][NextDb]_vars

InitStageEditor ==
  ParkedSession /\ ParkedUnit /\ ParkedApi /\ ParkedBoard /\ ParkedDb
    /\ InitEditor /\ ParkedGuard
SpecEditor == InitStageEditor /\ [][NextEditor]_vars

InitRouteGuard ==
  ParkedSession /\ ParkedUnit /\ ParkedApi /\ ParkedBoard /\ ParkedDb
    /\ ParkedEditor /\ InitGuard
SpecGuard == InitRouteGuard /\ [][NextGuard]_vars

(***************************************************************************)
(* Session properties                                                      *)
(***************************************************************************)
\* C1: a route of a role's area is rendered only while that role is the
\* active role.
C1_RoleAreaNeedsActiveRole ==
  page \in RolePaths => activeRole = RequiredRole(page)

\* C2: every create-session or switch-role request whose response stored the
\* token named a role in the list the backend had reported as the user's
\* assigned roles.
C2_TokenRoleWasReported ==
  (backendToken # NoToken \/ lsToken # NoToken) =>
    /\ delivered # NoDelivery
    /\ delivered.offered

\* A token delivered by a switch-role request chosen from the reported list.
C2_Witness ==
  /\ backendToken # NoToken
  /\ lastSwitch # NoSwitch
  /\ delivered.role = lastSwitch.role
  /\ delivered.offered

\* C3: there is one active role at most, and while a token is stored the
\* active role, in memory and in localStorage, is the role named by the
\* request that delivered the token; a page reload keeps it so.
C3_ActiveRoleIsTokenRole ==
  /\ activeRole \in Roles \cup {NoRole}
  /\ (backendToken # NoToken \/ lsToken # NoToken) =>
       /\ backendToken = lsToken
       /\ activeRole = delivered.role
       /\ lsActiveRole = delivered.role

\* After a switch the page was loaded anew (the Supabase user is not yet
\* known again) and the token and role of the switch are in place.
C3_Witness ==
  /\ lastSwitch # NoSwitch
  /\ ~supabaseUser
  /\ backendToken = lastSwitch.token
  /\ activeRole = lastSwitch.role

\* C4: after a successful switchRole the token is the new one in memory and
\* in localStorage, the active role is the new role, and every API request
\* sent afterwards carries the new token.
C4_SwitchedTokenOnEveryRequest ==
  lastSwitch # NoSwitch =>
    /\ backendToken = lastSwitch.token
    /\ lsToken = lastSwitch.token
    /\ activeRole = lastSwitch.role
    /\ lastAuth.sent => lastAuth.tok = lastSwitch.token

\* C5: a user who picked a role in a role selector (or has a single role at
\* login) ends up holding a token for that role: once no create-session
\* request for the picked role is pending, the stored token is for it.
C5_PickedRoleGetsToken ==
  (/\ picked # NoPick
   /\ ~\E m \in net : m.op = "create" /\ m.role = picked.role) =>
    /\ backendToken # NoToken
    /\ backendToken.role = picked.role

C7_ActiveStageIsFirstOpenStage ==
  /\ (unitPage = "detail" /\ unit.loaded) =>
       LET stages == unit.stages
           open == {i \in 1..Len(stages) :
                      \E j \in 1..Len(stages[i].tasks) :
                        ~stages[i].tasks[j].completed}
           card == ActiveStageCard(unit)
       IN  IF open = {} THEN card = Hidden
           ELSE /\ card.position \in open
                /\ \A i \in open : card.position <= i
                /\ card.title = stages[card.position].title
                /\ card.of = Len(stages)
  /\ (unitPage = "form" /\ unit.ok) =>
       LET stages == unit.data.stages
           open == {i \in 1..Len(stages) :
                      \E j \in 1..Len(stages[i].tasks) :
                        ~stages[i].tasks[j].completed}
       IN  IF open = {} THEN stageId = 0
           ELSE /\ stageId \in {stages[i].id : i \in open}
                /\ \A i \in open : stageId <= stages[i].id

C9_ReadsNeverThrowNorSendWithoutId ==
  LET default == [ok |-> FALSE,
                  data |-> IF apiCall.op = "listProductionUnits" THEN <<>>
                           ELSE Missing]
  IN  /\ apiPc # "threw"
      /\ (apiPc = "returned" /\ apiCall.outcome = "fail") =>
           apiResult = default
      /\ (apiPc # "idle" /\ apiCall.arg = "missing") =>
           /\ apiPc = "returned"
           /\ apiResult = default
           /\ apiSent = apiCall.sentBefore

\* C9 (amended): the three read operations never throw; a failed request
\* gives ok:false with the empty default; the dashboard summary and the unit
\* list, which take the user id, give that default without sending a request
\* when it is missing, while the unit details send their request whatever
\* the unit id is.
C9_ReadsNeverThrowUserIdGuarded ==
  LET default == [ok |-> FALSE,
                  data |-> IF apiCall.op = "listProductionUnits" THEN <<>>
                           ELSE Missing]
  IN  /\ apiPc # "threw"
      /\ (apiPc = "returned" /\ apiCall.outcome = "fail") =>
           apiResult = default
      /\ (/\ apiPc # "idle"
          /\ apiCall.arg = "missing"
          /\ apiCall.op \in {"getDashboardSummary", "listProductionUnits"}) =>
           /\ apiPc = "returned"
           /\ apiResult = default
           /\ apiSent = apiCall.sentBefore
      /\ (apiPc # "idle" /\ apiCall.op = "getProductionUnit") =>
           apiSent = apiCall.sentBefore + 1

\* The unit list was asked for without a user id, after earlier requests.
C9_Witness ==
  /\ apiPc = "returned"
  /\ apiCall.op = "listProductionUnits"
  /\ apiCall.arg = "missing"
  /\ apiResult = safeReturn(<<>>)
  /\ apiSent = apiCall.sentBefore
  /\ apiSent > 0

C12_DeleteDemoDataKeepsOtherRows ==
  [][dbOp'.op = "deleteDemoData" =>
       /\ \A t \in taskRows : ~t.seed => t \in taskRows'
       /\ \A r \in projects : ~r.seed => r \in projects'
       /\ \A r \in profiles : ~r.seed => r \in profiles']_vars

(***************************************************************************)
(* Stage template editor properties                                        *)
(***************************************************************************)
\* C13: the payload sent to create a production unit numbers the stages
\* 1..n in the order the editor shows them and the tasks of each stage 1..m
\* in their shown order, without gaps or duplicates, whatever was added,
\* removed, renamed or moved before.
C13_PayloadOrderIsShownOrder ==
  [][(saving' /\ ~saving) =>
       LET sent == payload'.stages
       IN  /\ payload'.sent
           /\ Len(sent) = Len(edStages)
           /\ \A i \in DOMAIN sent :
                /\ sent[i].order = i
                /\ sent[i].title = edStages[i].title
                /\ Len(sent[i].tasks) = Len(edStages[i].tasks)
                /\ \A j \in DOMAIN sent[i].tasks :
                     /\ sent[i].tasks[j].order = j
                     /\ sent[i].tasks[j].title = edStages[i].tasks[j].title
           /\ \A i, k \in DOMAIN sent :
                sent[i].order = sent[k].order => i = k]_vars

\* A payload whose first stage was added in the editor and moved up, ahead
\* of a renamed template stage, each with a task.
C13_Witness ==
  /\ payload.sent
  /\ Len(payload.stages) >= 2
  /\ payload.stages[1].title = "New Stage"
  /\ payload.stages[2].title = "Mulching"
  /\ payload.stages[1].order = 1
  /\ payload.stages[2].order = 2
  /\ Len(payload.stages[1].tasks) >= 1
  /\ payload.stages[1].tasks[1].order = 1

C15_LogoutClearsSession ==
  [][Logout =>
       /\ backendToken' = NoToken
       /\ lsToken' = NoToken
       /\ activeRole' = NoRole
       /\ lsActiveRole' = NoRole
       /\ roles' = {}
       /\ ~user'
       /\ ~supabaseUser'
       /\ \A p \in ProtectedPaths :
            Settle(p, backendToken', lsToken', activeRole') = "/login"
       /\ page' = "/login"]_vars

\* A session was created and logout has cleared it although the sign-out
\* threw (the Supabase session is still there).
C15_Witness ==
  /\ nextTok > 1
  /\ sbSession /\ ~supabaseUser
  /\ backendToken = NoToken /\ lsToken = NoToken
  /\ activeRole = NoRole /\ lsActiveRole = NoRole
  /\ roles = {} /\ ~user
  /\ page = "/login" /\ ~profileId /\ loginPc = "idle"

\* C16: after the sign-in and the roles request of Login: with no role the
\* user is sent to /register-roles and no create-session request is made;
\* with exactly one role the request is made for that role and the selector
\* is not shown; with two or more roles the selector is shown and no request
\* is made; when the roles request failed no request is made.  A
\* create-session request is otherwise made only for a role picked in a
\* selector, and this handler never stores a token itself.
C16_LoginBranchesOnRoleCount ==
  [][/\ handled'.op = "roles" =>
          /\ storeVars' = storeVars
          /\ handled'.found = "zero" =>
                /\ roles' = {}
                /\ page' = "/register-roles"
                /\ net' = net
          /\ handled'.found = "one" =>
                /\ Cardinality(roles') = 1
                /\ \E r \in roles' :
                     /\ Request("create", r, roles') \in net'
                     /\ net' \subseteq net \cup {Request("create", r, roles')}
                /\ showRoleSelector' = showRoleSelector
                /\ page' = page
          /\ handled'.found = "many" =>
                /\ Cardinality(roles') >= 2
                /\ net' = net
                /\ page' = page
                /\ page = "/login" => showRoleSelector'
          /\ handled'.found = "failed" =>
                /\ net' = net
                /\ page' = page
                /\ showRoleSelector' = showRoleSelector
     /\ \A m \in net' \ net :
          m.op = "create" =>
            \/ handled'.op = "roles" /\ handled'.found = "one"
            \/ picked'.role = m.role /\ picked'.flow \in {"login",
                                                          "registration"}]_vars

\* The only role of the user is on its way to the backend, no selector shown.
C16_Witness ==
  /\ handled.op = "roles" /\ handled.found = "one"
  /\ \E m \in net : m.op = "create" /\ roles = {m.role}
  /\ ~showRoleSelector
  /\ page = "/login"
  /\ backendToken = NoToken

\* C17: when creating the backend session yields no token, Login reports
\* "Failed to create backend session" and does not navigate to "/"; Login
\* navigates to "/" only after a token has been stored.
C17_NoTokenNoNavigation ==
  [][handled'.op = "session" =>
       /\ handled'.found # "token" =>
             /\ handled'.nav = NoNav
             /\ page = "/login" => error' = "session"
       /\ handled'.nav = "/" =>
             /\ backendToken' # NoToken
             /\ lsToken' = backendToken'
             /\ backendToken' # backendToken]_vars

C19_DropTargetIsColumn ==
  /\ lastDrop.over \in Statuses \cup {NoTarget}
  /\ \A t \in DOMAIN tasks :
       Cardinality({c \in Statuses : tasks[t] = c}) = 1
  /\ \A m \in boardNet : m.kind = "put" => m.status \in Statuses

(***************************************************************************)
(* Route guard with role redirects                                         *)
(***************************************************************************)
\* C20: when a valid token is stored and the user has roles but no active
\* role, the guard leads to the dashboard: the redirects end, and no redirect
\* made in that situation goes from a route to the same route.
C20_GuardNeverRedirectsToItself ==
  [][(/\ guardTokenLen > MinTokenLen
      /\ guardRoles # {}
      /\ guardActiveRole = NoActiveRole
      /\ redirects' = redirects + 1) => location' # location]_vars

(***************************************************************************)
(* Dashboard router at the root route                                      *)
(***************************************************************************)
\* Two texts are equal when letter case is ignored.
EqualIgnoringCase(a, b) ==
  /\ Len(a) = Len(b)
  /\ \A i \in DOMAIN a :
       \/ a[i] = b[i]
       \/ \E k \in DOMAIN Uppers : {a[i], b[i]} = {Uppers[k], Lowers[k]}

\* C21: when the root route renders DashboardRouter, an active role that
\* equals admin, farmer, worker or trader, letter case ignored, is redirected
\* to that role's dashboard path, which is a route of the application;
\* without an active role nothing is navigated ("Loading dashboard..."), and
\* with any other value nothing is navigated either ("Unknown role").
C21_RootRedirectsByRole ==
  [][(/\ RenderRoute
      /\ location = "/"
      /\ ~ProtectedRouteWithRoles(location, guardTokenLen, guardUser,
                                  guardRoles, guardActiveRole).nav) =>
       LET known == {r \in DOMAIN RoleSpelling :
                       EqualIgnoringCase(guardActiveRole, RoleSpelling[r])}
       IN  IF guardActiveRole = NoActiveRole
           THEN /\ location' = location /\ redirects' = redirects
                /\ rendered' = LoadingDashboard
           ELSE IF known = {}
           THEN /\ location' = location /\ redirects' = redirects
                /\ rendered' = UnknownRole
           ELSE /\ \A r \in known :
                     /\ location' = "/" \o r \o "/dashboard"
                     /\ RequiredRole(location') = r
                /\ location' \in Paths
                /\ redirects' = redirects + 1]_vars

\* "Admin" at the root route has been sent to the admin dashboard, and the
\* dashboard is on screen.
C21_Witness ==
  /\ guardActiveRole = <<"A", "d", "m", "i", "n">>
  /\ location = "/admin/dashboard"
  /\ rendered = "/admin/dashboard"
  /\ redirects = 1

(***************************************************************************)
(* Task list of the unit detail page                                       *)
(***************************************************************************)
\* C22: on the detail page a task is overdue exactly when it has a due date,
\* is not completed and the due date lies before the current time; the tasks
\* of a stage are displayed with the overdue ones first, then the other
\* incomplete ones, then the completed ones, and the displayed list is a
\* permutation of the stage's tasks.
C22_OverdueFirstThenOpenThenDone ==
  (unitPage = "detail" /\ unit.loaded) =>
    \A i \in 1..Len(unit.stages) :
      LET st == unit.stages[i].tasks
          displayed == sortedTasks(st)
          Late(t) == t.due = "past" /\ ~t.completed
          Group(t) == IF Late(t) THEN 1 ELSE IF ~t.completed THEN 2 ELSE 3
      IN  /\ \A k \in 1..Len(st) : isOverdue(st[k], Today) <=> Late(st[k])
          /\ Len(displayed) = Len(st)
          /\ \A k \in 1..Len(st) :
               Cardinality({l \in 1..Len(displayed) : displayed[l] = st[k]})
                 = Cardinality({l \in 1..Len(st) : st[l] = st[k]})
          /\ \A k, l \in 1..Len(displayed) :
               k < l => Group(displayed[k]) <= Group(displayed[l])

\* The detail page shows a stage whose stored order is a completed task with
\* a past due date followed by an overdue one: the list is shown reordered.
C22_Witness ==
  /\ unitPage = "detail"
  /\ unit.loaded
  /\ \E i \in 1..Len(unit.stages) :
       LET st == unit.stages[i].tasks
       IN  /\ Len(st) >= 2
           /\ st[1].completed /\ st[1].due = "past"
           /\ ~st[2].completed /\ st[2].due = "past"
           /\ sortedTasks(st)[1] = st[2]
           /\ sortedTasks(st) # st

====
